---- MODULE Spec2Model ----
(***************************************************************************)
(* Model of app_aqarmap.py: a Streamlit dashboard with three views chosen  *)
(* by a sidebar radio.  Every interaction cycle re-executes the script     *)
(* top to bottom: it reads the selection, looks the view up in page_dict   *)
(* and calls it.  Each view reads one CSV file with pandas; eda_page also  *)
(* coerces three columns to numbers and picks charts.                      *)
(*                                                                         *)
(* Text is a sequence of tokens.  A token is one character ("1", ",",      *)
(* " ", "m", "²"); a category label that is not numeric text (such as     *)
(* "Cairo") may be written as a single token.                              *)
(* A number is a decimal m * 10^-e, normalised; 12 and 12.0 are the same   *)
(* value, and whether a column is int64 or float64 is derived from its     *)
(* cells where the code's text conversion depends on it.  Exponent         *)
(* notation ("1e3") is outside the input alphabet.                         *)
(***************************************************************************)
EXTENDS Integers, Sequences, FiniteSets, TLC

VARIABLES
    files,      \* the file system: file name -> [exists, data (raw CSV cells)]
    legacy_index, \* the installed pandas: TRUE when value_counts().reset_index()
                \* names its first column "index" (pandas < 2.0), FALSE when it
                \* yields [col, "count"] (pandas >= 2.0); the source pins no version
    option,     \* st.sidebar.radio: the current selection
    src,        \* history: files[file of the selected view] when the last cycle began
    ran,        \* TRUE once the script has executed at least one cycle
    invoked,    \* last cycle: view function -> number of calls
    reads,      \* last cycle: the sequence of files pd.read_csv was called on
    outcome,    \* last cycle: "ok" or the exception that left the script
    rendered,   \* last cycle: the st.* display calls that executed, in order
    shown,      \* last cycle: the table handed to st.dataframe, if any
    df          \* last cycle: the view's table when the view ended, if any

vars == <<files, legacy_index, option, src, ran, invoked, reads, outcome, rendered, shown, df>>

(***************************************************************************)
(* Text                                                                    *)
(***************************************************************************)
Digits == {"0", "1", "2", "3", "4", "5", "6", "7", "8", "9"}

DigitChars == <<"0", "1", "2", "3", "4", "5", "6", "7", "8", "9">>

DigitVal(c) == CHOOSE n \in 0..9 : DigitChars[n + 1] = c

RECURSIVE DigitsVal(_)
DigitsVal(s) ==
    IF s = <<>> THEN 0
    ELSE 10 * DigitsVal(SubSeq(s, 1, Len(s) - 1)) + DigitVal(s[Len(s)])

RECURSIVE NatToStr(_)
NatToStr(n) ==
    IF n < 10 THEN <<DigitChars[n + 1]>>
    ELSE NatToStr(n \div 10) \o <<DigitChars[(n % 10) + 1]>>

\* Python str(int)
IntToStr(n) == IF n < 0 THEN <<"-">> \o NatToStr(-n) ELSE NatToStr(n)

\* Python str.replace(pat, repl): every non-overlapping occurrence, left to right
RECURSIVE str_replace(_, _, _)
str_replace(s, pat, repl) ==
    IF Len(s) < Len(pat) THEN s
    ELSE IF SubSeq(s, 1, Len(pat)) = pat
         THEN repl \o str_replace(SubSeq(s, Len(pat) + 1, Len(s)), pat, repl)
         ELSE <<Head(s)>> \o str_replace(Tail(s), pat, repl)

RECURSIVE LStrip(_)
LStrip(s) == IF s # <<>> /\ Head(s) = " " THEN LStrip(Tail(s)) ELSE s

RECURSIVE RStrip(_)
RStrip(s) ==
    IF s # <<>> /\ s[Len(s)] = " " THEN RStrip(SubSeq(s, 1, Len(s) - 1)) ELSE s

AllDigits(s) == s # <<>> /\ \A i \in 1..Len(s) : s[i] \in Digits

(***************************************************************************)
(* Cell values of a loaded table                                           *)
(***************************************************************************)
\* the number m * 10^-e; f tells a float (7.0) from an integer (7)
Dec(m, e, f) == [t |-> "num", n |-> m, e |-> e, f |-> f, s |-> <<>>]

Num(n) == Dec(n, 0, FALSE)

Txt(s) == [t |-> "str", n |-> 0, e |-> 0, f |-> FALSE, s |-> s]

NaN == [t |-> "nan", n |-> 0, e |-> 0, f |-> FALSE, s |-> <<>>]

RECURSIVE StripZeros(_)
StripZeros(s) ==
    IF s # <<>> /\ s[Len(s)] = "0" THEN StripZeros(SubSeq(s, 1, Len(s) - 1)) ELSE s

RECURSIVE ZeroPad(_, _)
ZeroPad(s, n) == IF Len(s) >= n THEN s ELSE ZeroPad(<<"0">> \o s, n)

\* pandas' numeric parser on text: surrounding blanks skipped, optional sign,
\* decimal digits with at most one decimal point and at least one digit;
\* anything else is not a number (reported here as NaN).  A text written with
\* a decimal point is a float whatever its value ("7." is 7.0)
ParseDecimal(negative, ip, fp, frac, float) ==
    IF /\ Len(ip) + Len(fp) > 0
       /\ \A i \in 1..Len(ip) : ip[i] \in Digits
       /\ \A i \in 1..Len(fp) : fp[i] \in Digits
    THEN Dec(IF negative THEN -DigitsVal(ip \o frac) ELSE DigitsVal(ip \o frac),
             Len(frac), float)
    ELSE NaN

\* d split at position dot: the integer part before it, the fraction after it
ParseSplit(negative, d, dot) ==
    ParseDecimal(negative, SubSeq(d, 1, dot - 1), SubSeq(d, dot + 1, Len(d)),
                 StripZeros(SubSeq(d, dot + 1, Len(d))), dot <= Len(d))

ParseUnsigned(negative, d, dots) ==
    IF dots = {} THEN ParseSplit(negative, d, Len(d) + 1)
    ELSE IF Cardinality(dots) > 1 THEN NaN
    ELSE ParseSplit(negative, d, CHOOSE i \in dots : TRUE)

ParseStripped(b) ==
    IF b # <<>> /\ Head(b) \in {"-", "+"}
    THEN ParseUnsigned(Head(b) = "-", Tail(b), {i \in 1..(Len(b) - 1) : b[i + 1] = "."})
    ELSE ParseUnsigned(FALSE, b, {i \in 1..Len(b) : b[i] = "."})

ParseNumber(s) == ParseStripped(RStrip(LStrip(s)))

IsNumberText(s) == ParseNumber(s).t = "num"

\* pd.to_numeric(..., errors='coerce') on one value
to_numeric(v) ==
    IF v.t = "str" THEN ParseNumber(v.s) ELSE v

\* Python str(float) of m * 10^-e, in positional notation: "1200.0", "1.5"
FloatDigits(negative, ds, e) ==
    (IF negative THEN <<"-">> ELSE <<>>)
    \o SubSeq(ds, 1, Len(ds) - e) \o <<".">>
    \o (IF e = 0 THEN <<"0">> ELSE SubSeq(ds, Len(ds) - e + 1, Len(ds)))

FloatToStr(m, e) ==
    FloatDigits(m < 0, ZeroPad(NatToStr(IF m < 0 THEN -m ELSE m), e + 1), e)

\* Series.astype(str) on one value of a column; float64 tells the column's dtype
astype_str(v, float64) ==
    IF v.t = "num" THEN (IF float64 THEN FloatToStr(v.n, v.e) ELSE IntToStr(v.n))
    ELSE IF v.t = "nan" THEN <<"n", "a", "n">>
    ELSE v.s

(***************************************************************************)
(* Tables: a function from the column names present to equally long        *)
(* sequences of cells.  Header is the column order of the CSV header.      *)
(***************************************************************************)
Header == <<"Price", "Area in m²", "Bedrooms", "View", "Governorate",
            "Price per meter", "Payment Method", "Year Built", "Floor">>

EmptyTable == [c \in {} |-> <<>>]

NoTable == [has |-> FALSE, t |-> EmptyTable]

Table(t) == [has |-> TRUE, t |-> t]

Columns(t) == SelectSeq(Header, LAMBDA c : c \in DOMAIN t)

NRows(t) == IF DOMAIN t = {} THEN 0 ELSE Len(t[CHOOSE c \in DOMAIN t : TRUE])

\* default na_values of pd.read_csv, within the alphabet
NAStrings == {<<>>, <<"N", "/", "A">>, <<"N", "A">>, <<"n", "a", "n">>,
              <<"N", "a", "N">>, <<"n", "/", "a">>}

IsNumericColumn(col) == \A i \in 1..Len(col) : col[i].t # "str"

\* a numeric column is float64 when it holds a missing value or a float,
\* int64 otherwise
IsFloatColumn(col) ==
    /\ IsNumericColumn(col)
    /\ \E i \in 1..Len(col) : col[i].t = "nan" \/ col[i].f

\* one dtype per column: in a float64 column every number is a float
upcast(col) ==
    IF IsFloatColumn(col)
    THEN [i \in 1..Len(col) |->
            IF col[i].t = "num" THEN [col[i] EXCEPT !.f = TRUE] ELSE col[i]]
    ELSE col

\* type inference of pd.read_csv on one column of raw text
read_csv_column(col) ==
    LET numeric == \A i \in 1..Len(col) : col[i] \in NAStrings \/ IsNumberText(col[i])
    IN  upcast([i \in 1..Len(col) |->
                  IF col[i] \in NAStrings THEN NaN
                  ELSE IF numeric THEN ParseNumber(col[i])
                  ELSE Txt(col[i])])

parse_csv(raw) == [c \in DOMAIN raw |-> read_csv_column(raw[c])]

\* faulty variant: errors='coerce' is not honoured, an unparseable value raises
to_numeric_series_raise(col, errors) ==
    LET bad == \E i \in 1..Len(col) : col[i].t = "str" /\ ~IsNumberText(col[i].s)
    IN  IF bad
        THEN [raised |-> TRUE, col |-> col]
        ELSE [raised |-> FALSE,
              col |-> upcast([i \in 1..Len(col) |-> to_numeric(col[i])])]

\* pd.to_numeric(series, errors=...): with errors='coerce' a value that does
\* not parse becomes NaN; with any other setting the first such value raises;
\* the result is float64 when any value is missing or a float
to_numeric_series(col, errors) ==
    LET bad == \E i \in 1..Len(col) : col[i].t = "str" /\ ~IsNumberText(col[i].s)
    IN  IF errors # "coerce" /\ bad
        THEN [raised |-> TRUE, col |-> col]
        ELSE [raised |-> FALSE,
              col |-> upcast([i \in 1..Len(col) |-> to_numeric(col[i])])]

\* Series.astype(str).str.replace(pat, "")
astype_str_replace(col, pat) ==
    [i \in 1..Len(col) |->
        Txt(str_replace(astype_str(col[i], IsFloatColumn(col)), pat, <<>>))]

\* Series.nunique(): distinct values, missing values not counted
nunique(col) == Cardinality({col[i] : i \in {j \in 1..Len(col) : col[j].t # "nan"}})

\* df.select_dtypes(include="number").columns
num_columns(t) == SelectSeq(Columns(t), LAMBDA c : IsNumericColumn(t[c]))

\* df.select_dtypes(include=["object", "string"]).columns
cat_columns(t) == SelectSeq(Columns(t), LAMBDA c : ~IsNumericColumn(t[c]))

(***************************************************************************)
(* The file system and pd.read_csv                                         *)
(***************************************************************************)
HomeFile == "aqarmap_all_apartments_merged.csv"

EdaFile == "aqar_deployment.csv"

PreFile == "Full_train_set.csv"

FileNames == {HomeFile, EdaFile, PreFile}

\* faulty variant: the table of the previous cycle is kept and reused
read_csv_memo(name) ==
    IF df.has THEN [ok |-> TRUE, t |-> df.t]
    ELSE IF files[name].exists
    THEN [ok |-> TRUE, t |-> parse_csv(files[name].data)]
    ELSE [ok |-> FALSE, t |-> EmptyTable]

\* pd.read_csv(name): the parsed table, or FileNotFoundError
read_csv(name) ==
    IF files[name].exists
    THEN [ok |-> TRUE, t |-> parse_csv(files[name].data)]
    ELSE [ok |-> FALSE, t |-> EmptyTable]

(***************************************************************************)
(* What one call of a view leaves behind                                   *)
(***************************************************************************)
Result(o, r, f, sh, d) ==
    [outcome |-> o, rendered |-> r, reads |-> f, shown |-> sh, df |-> d]

\* A display step: the st.* call, the columns the statement looks up, the
\* columns of the table it looks them up in, and the exception the library
\* raises when one of them is absent
Step(kind, arg, needs, cols, err) ==
    [call |-> <<kind, arg>>, needs |-> needs, cols |-> cols, err |-> err]

Show(kind, arg) == Step(kind, arg, {}, {}, "none")

\* faulty variant: a statement that raises is skipped and the view carries on
run_steps_skip_failed(steps) ==
    LET good == SelectSeq(steps, LAMBDA st : st.needs \subseteq st.cols)
    IN  [outcome |-> "ok", rendered |-> [i \in 1..Len(good) |-> good[i].call]]

\* Statements execute in order; the first one that raises ends the view, and
\* nothing catches the exception
run_steps(steps) ==
    LET bad == {i \in 1..Len(steps) : ~(steps[i].needs \subseteq steps[i].cols)}
    IN  IF bad = {}
        THEN [outcome |-> "ok", rendered |-> [i \in 1..Len(steps) |-> steps[i].call]]
        ELSE LET k == CHOOSE i \in bad : \A j \in bad : i <= j
             IN  [outcome |-> steps[k].err,
                  rendered |-> [i \in 1..(k - 1) |-> steps[i].call]]

(***************************************************************************)
(* home_page                                                               *)
(***************************************************************************)
home_intro ==
    << <<"title", "Real Estate Data Analysis - Aqarmap Project">>,
       <<"subheader", "Project Introduction">>,
       <<"write", "intro_text">>,
       <<"subheader", "Scraped Real Estate Dataset">> >>

home_loaded(r) ==
    IF ~r.ok
    THEN Result("FileNotFoundError", home_intro, <<HomeFile>>, NoTable, NoTable)
    ELSE Result("ok", home_intro \o << <<"dataframe", "df">> >>, <<HomeFile>>,
                Table(r.t), Table(r.t))

home_page == home_loaded(read_csv(HomeFile))

(***************************************************************************)
(* preprocessed_page                                                       *)
(***************************************************************************)
preprocessed_loaded(title, r) ==
    IF ~r.ok
    THEN Result("FileNotFoundError", <<title>>, <<PreFile>>, NoTable, NoTable)
    ELSE Result("ok", <<title, <<"dataframe", "df_final">> >>, <<PreFile>>,
                Table(r.t), Table(r.t))

preprocessed_page == preprocessed_loaded(<<"title", "Preprocessed Data">>, read_csv(PreFile))

(***************************************************************************)
(* eda_page: the coercion pass                                             *)
(***************************************************************************)
\* faulty variant: rows whose coerced value is missing are dropped from df
assign_numeric_dropna(t, c, series) ==
    IF series.raised THEN [outcome |-> "ValueError", t |-> t]
    ELSE LET keep == SelectSeq([i \in 1..Len(series.col) |-> i],
                               LAMBDA i : series.col[i].t # "nan")
         IN  [outcome |-> "ok",
              t |-> [k \in DOMAIN t |->
                        [j \in 1..Len(keep) |->
                            IF k = c THEN series.col[keep[j]] ELSE t[k][keep[j]]]]]

\* df[c] = series: KeyError when df has no column c (the right-hand side reads
\* df[c] first), ValueError when to_numeric raises
assign_numeric(t, c, series) ==
    IF series.raised THEN [outcome |-> "ValueError", t |-> t]
    ELSE [outcome |-> "ok", t |-> [t EXCEPT ![c] = series.col]]

\* str.replace(pat, "", 1): only the first occurrence
str_replace_first(s, pat) ==
    LET at == {i \in 1..(Len(s) - Len(pat) + 1) : SubSeq(s, i, i + Len(pat) - 1) = pat}
    IN  IF at = {} THEN s
        ELSE LET k == CHOOSE i \in at : \A j \in at : i <= j
             IN  SubSeq(s, 1, k - 1) \o SubSeq(s, k + Len(pat), Len(s))

\* faulty variant: only the first thousands separator is removed
coerce_price_first_comma(t) ==
    IF "Price" \notin DOMAIN t THEN [outcome |-> "KeyError", t |-> t]
    ELSE assign_numeric(t, "Price",
            to_numeric_series(
                [i \in 1..Len(t["Price"]) |->
                    Txt(str_replace_first(
                            astype_str(t["Price"][i], IsFloatColumn(t["Price"])), <<",">>))],
                "coerce"))

\* df['Price'] = pd.to_numeric(df['Price'].astype(str).str.replace(",", ""), errors='coerce')
coerce_price(t) ==
    IF "Price" \notin DOMAIN t THEN [outcome |-> "KeyError", t |-> t]
    ELSE assign_numeric(t, "Price",
            to_numeric_series(astype_str_replace(t["Price"], <<",">>), "coerce"))

\* faulty variant: the unit suffix is not removed
coerce_area_no_strip(t) ==
    IF "Area in m²" \notin DOMAIN t THEN [outcome |-> "KeyError", t |-> t]
    ELSE assign_numeric(t, "Area in m²", to_numeric_series(t["Area in m²"], "coerce"))

\* df['Area in m²'] = pd.to_numeric(df['Area in m²'].astype(str).str.replace(" m²",""), errors='coerce')
coerce_area(t) ==
    IF "Area in m²" \notin DOMAIN t THEN [outcome |-> "KeyError", t |-> t]
    ELSE assign_numeric(t, "Area in m²",
            to_numeric_series(astype_str_replace(t["Area in m²"], <<" ", "m", "²">>), "coerce"))

\* variant: Bedrooms is cleaned of thousands separators like Price
coerce_bedrooms_strip_commas(t) ==
    IF "Bedrooms" \notin DOMAIN t THEN [outcome |-> "KeyError", t |-> t]
    ELSE assign_numeric(t, "Bedrooms",
            to_numeric_series(astype_str_replace(t["Bedrooms"], <<",">>), "coerce"))

\* df['Bedrooms'] = pd.to_numeric(df['Bedrooms'], errors='coerce')
coerce_bedrooms(t) ==
    IF "Bedrooms" \notin DOMAIN t THEN [outcome |-> "KeyError", t |-> t]
    ELSE assign_numeric(t, "Bedrooms", to_numeric_series(t["Bedrooms"], "coerce"))

\* the three assignments in order; the first that raises ends the view
then_bedrooms(a) == IF a.outcome # "ok" THEN a ELSE coerce_bedrooms(a.t)

then_area(p) == IF p.outcome # "ok" THEN p ELSE then_bedrooms(coerce_area(p.t))

coerce_columns(t) == then_area(coerce_price(t))

(***************************************************************************)
(* eda_page: the three tabs                                                *)
(***************************************************************************)
PieBelow == 7

HistogramAbove == 10

\* faulty variant: the pie bound is inclusive
chart_for_inclusive(unique_vals) ==
    IF unique_vals <= PieBelow THEN "pie"
    ELSE IF unique_vals > HistogramAbove THEN "histogram"
    ELSE "bar"

\* the chart of a categorical column with unique_vals distinct values
chart_for(unique_vals) ==
    IF unique_vals < PieBelow THEN "pie"
    ELSE IF unique_vals > HistogramAbove THEN "histogram"
    ELSE "bar"

univariate_numeric(t) ==
    LET cols == num_columns(t)
    IN  << Show("subheader", "Numeric Columns") >>
        \o [i \in 1..Len(cols) |-> Show("distribution", cols[i])]

\* the columns of df[col].value_counts().reset_index()
value_counts_columns(col) ==
    IF legacy_index THEN {"index", col} ELSE {col, "count"}

\* the chart statement of one categorical column.  px.pie and px.histogram
\* are given df and col; px.bar is given the value counts with x="index",
\* y=col, and raises ValueError when that table has no column "index"
chart_step(t, col) ==
    LET kind == chart_for(nunique(t[col]))
    IN  IF kind = "bar"
        THEN Step(kind, col, {"index", col}, value_counts_columns(col), "ValueError")
        ELSE Step(kind, col, {col}, DOMAIN t, "ValueError")

\* per categorical column: its name in bold, then the chart chosen for it
univariate_categorical(t) ==
    LET cols == cat_columns(t)
    IN  << Show("subheader", "Categorical Columns") >>
        \o [i \in 1..(2 * Len(cols)) |->
                LET col == cols[(i + 1) \div 2]
                IN  IF i % 2 = 1 THEN Show("markdown", col)
                    ELSE chart_step(t, col)]

bivariate(t) ==
    << Show("subheader", "Bivariate Analysis"),
       Show("markdown", "1) Price Distribution by View"),
       Step("plotly_chart", "fig1", {"View", "Price"}, DOMAIN t, "ValueError"),
       Show("markdown", "note1"),
       Show("markdown", "2) Average Price per Square Meter by Governorate"),
       Step("plotly_chart", "fig2", {"Governorate", "Price per meter"}, DOMAIN t, "KeyError"),
       Show("markdown", "3) Average Property Price by Payment Method"),
       Step("pyplot", "fig3", {"Payment Method", "Price"}, DOMAIN t, "KeyError"),
       Show("markdown", "note3"),
       Show("markdown", "4) Number of Ads by Governorate"),
       Step("plotly_chart", "fig4", {"Governorate"}, DOMAIN t, "KeyError"),
       Show("markdown", "5) Price across Year Built"),
       Step("plotly_chart", "fig5", {"Price", "Year Built"}, DOMAIN t, "ValueError"),
       Show("markdown", "6) Most Advertised Floors"),
       Step("pyplot", "fig6", {"Floor"}, DOMAIN t, "ValueError"),
       Show("markdown", "7) Relationship between Price and Floor"),
       Step("plotly_chart", "fig7", {"Floor", "Price"}, DOMAIN t, "ValueError"),
       Show("markdown", "8) Top 10 Most Common Areas"),
       Step("pyplot", "fig8", {"Area in m²"}, DOMAIN t, "KeyError"),
       Show("markdown", "9) Property Price Distribution in Selected Governorates"),
       Step("plotly_chart", "fig9", {"Governorate", "Price"}, DOMAIN t, "KeyError"),
       Show("markdown", "10) Price vs Number of Bedrooms"),
       Step("pyplot", "fig10", {"Bedrooms", "Price"}, DOMAIN t, "ValueError") >>

multivariate ==
    << Show("subheader", "Multivariate Analysis - Numeric Columns"),
       Show("pyplot", "pairplot") >>

eda_steps(t) ==
    << Show("tabs", "Univariate, Bivariate, Multivariate") >>
    \o univariate_numeric(t) \o univariate_categorical(t) \o bivariate(t)
    \o multivariate

eda_rendered(title, c, run) ==
    Result(run.outcome, <<title>> \o run.rendered, <<EdaFile>>, NoTable, Table(c.t))

eda_coerced(title, c) ==
    IF c.outcome # "ok"
    THEN Result(c.outcome, <<title>>, <<EdaFile>>, NoTable, Table(c.t))
    ELSE eda_rendered(title, c, run_steps(eda_steps(c.t)))

eda_loaded(title, r) ==
    IF ~r.ok
    THEN Result("FileNotFoundError", <<title>>, <<EdaFile>>, NoTable, NoTable)
    ELSE eda_coerced(title, coerce_columns(r.t))

eda_page == eda_loaded(<<"title", "Exploratory Data Analysis">>, read_csv(EdaFile))

(***************************************************************************)
(* Navigation                                                              *)
(***************************************************************************)
\* options= of st.sidebar.radio
Options == <<"Home Page", "EDA & Plots", "Preprocessed Data">>

Views == {"home_page", "eda_page", "preprocessed_page"}

\* faulty variant: two entries of the mapping are exchanged
page_dict_swapped ==
    [o \in {"Home Page", "EDA & Plots", "Preprocessed Data"} |->
        CASE o = "Home Page" -> "home_page"
          [] o = "EDA & Plots" -> "preprocessed_page"
          [] o = "Preprocessed Data" -> "eda_page"]

\* faulty variant: one selectable name has no entry
page_dict_short ==
    [o \in {"Home Page", "EDA & Plots"} |->
        CASE o = "Home Page" -> "home_page"
          [] o = "EDA & Plots" -> "eda_page"]

page_dict ==
    [o \in {"Home Page", "EDA & Plots", "Preprocessed Data"} |->
        CASE o = "Home Page" -> "home_page"
          [] o = "EDA & Plots" -> "eda_page"
          [] o = "Preprocessed Data" -> "preprocessed_page"]

call(view) ==
    CASE view = "home_page" -> home_page
      [] view = "eda_page" -> eda_page
      [] view = "preprocessed_page" -> preprocessed_page

\* page_dict[option](): the lookup raises KeyError for an unknown key, before
\* any view is called; otherwise the view found is called once
dispatch(opt) ==
    IF opt \notin DOMAIN page_dict
    THEN [res |-> Result("KeyError", <<>>, <<>>, NoTable, NoTable),
          invoked |-> [v \in Views |-> 0]]
    ELSE [res |-> call(page_dict[opt]),
          invoked |-> [v \in Views |-> IF v = page_dict[opt] THEN 1 ELSE 0]]

(***************************************************************************)
(* Bounds and input data                                                   *)
(***************************************************************************)
MaxRows == 2

MaxLen == 4

MaxDropped == 1

MaxDistinct == 12

Range(f) == {f[x] : x \in DOMAIN f}

\* raw CSV rows of listings, as scraped
ListingRows ==
    << [c \in Range(Header) |->
          CASE c = "Price" -> <<"1", ",", "2", "3", "4", ",", "5", "0", "0">>
            [] c = "Area in m²" -> <<"1", "4", "9", " ", "m", "²">>
            [] c = "Bedrooms" -> <<"3">>
            [] c = "View" -> <<"Garden">>
            [] c = "Governorate" -> <<"Cairo">>
            [] c = "Price per meter" -> <<"8", "2", "8", "5">>
            [] c = "Payment Method" -> <<"Cash">>
            [] c = "Year Built" -> <<"2", "0", "2", "0">>
            [] c = "Floor" -> <<"3">>],
       [c \in Range(Header) |->
          CASE c = "Price" -> <<"9", "5", "0", ",", "0", "0", "0">>
            [] c = "Area in m²" -> <<"1", "2", "0", " ", "m", "²">>
            [] c = "Bedrooms" -> <<"2">>
            [] c = "View" -> <<"Main Street">>
            [] c = "Governorate" -> <<"Alexandria">>
            [] c = "Price per meter" -> <<"7", "9", "1", "6">>
            [] c = "Payment Method" -> <<"Installments">>
            [] c = "Year Built" -> <<"2", "0", "1", "8">>
            [] c = "Floor" -> <<"5">>],
       [c \in Range(Header) |->
          CASE c = "Price" -> <<"2", ",", "4", "0", "0", ",", "0", "0", "0">>
            [] c = "Area in m²" -> <<"1", "6", "0", " ", "m", "²">>
            [] c = "Bedrooms" -> <<"4">>
            [] c = "View" -> <<"Sea">>
            [] c = "Governorate" -> <<"North Coast">>
            [] c = "Price per meter" -> <<"1", "5", "0", "0", "0">>
            [] c = "Payment Method" -> <<"Cash">>
            [] c = "Year Built" -> <<"2", "0", "2", "2">>
            [] c = "Floor" -> <<"1">>] >>

BaseRow(i) == ListingRows[((i - 1) % Len(ListingRows)) + 1]

\* a raw table of n listings over the columns cols
BaseData(cols, n) == [c \in cols |-> [i \in 1..n |-> BaseRow(i)[c]]]

BaseFile(f) ==
    CASE f = HomeFile -> BaseData({"Price", "Area in m²", "Governorate"}, MaxRows)
      [] f = EdaFile -> BaseData(Range(Header), MaxRows)
      [] f = PreFile -> BaseData({"Bedrooms", "Floor"}, MaxRows)

OnDisk(data) == [exists |-> TRUE, data |-> data]

NoFile == [exists |-> FALSE, data |-> EmptyTable]

\* the text a later edit of a file puts into its first Price cell
EditedPrice == <<"2", ",", "0", "0", "0">>

\* the view each selection is documented to show, and the file behind it
BackingFile(o) ==
    CASE o = "Home Page" -> HomeFile
      [] o = "EDA & Plots" -> EdaFile
      [] o = "Preprocessed Data" -> PreFile

(***************************************************************************)
(* Initial state: the session has started, the script has not run yet      *)
(***************************************************************************)
InitSession ==
    /\ legacy_index \in BOOLEAN
    /\ option = Options[1]
    /\ src = NoFile
    /\ ran = FALSE
    /\ invoked = [v \in Views |-> 0]
    /\ reads = <<>>
    /\ outcome = "none"
    /\ rendered = <<>>
    /\ shown = NoTable
    /\ df = NoTable

Init ==
    /\ files = [f \in FileNames |-> OnDisk(BaseFile(f))]
    /\ InitSession

(***************************************************************************)
(* One interaction cycle: the user picks o in the sidebar (or the page is  *)
(* simply rerun) and the whole script executes                             *)
(***************************************************************************)
Rerun(o) ==
    \E d \in {dispatch(o)} :
        /\ option' = o
        /\ src' = files[BackingFile(o)]
        /\ ran' = TRUE
        /\ invoked' = d.invoked
        /\ reads' = d.res.reads
        /\ outcome' = d.res.outcome
        /\ rendered' = d.res.rendered
        /\ shown' = d.res.shown
        /\ df' = d.res.df
        /\ UNCHANGED <<files, legacy_index>>

Cycle == \E o \in Range(Options) : Rerun(o)

(***************************************************************************)
(* The environment: the operator changes the files between cycles          *)
(***************************************************************************)
RemoveFile(f) ==
    /\ files[f].exists
    /\ files' = [files EXCEPT ![f] = NoFile]
    /\ UNCHANGED <<legacy_index, option, src, ran, invoked, reads, outcome, rendered, shown, df>>

RestoreFile(f) ==
    /\ ~files[f].exists
    /\ files' = [files EXCEPT ![f] = OnDisk(BaseFile(f))]
    /\ UNCHANGED <<legacy_index, option, src, ran, invoked, reads, outcome, rendered, shown, df>>

\* the EDA file is rewritten without column c
DropColumn(c) ==
    /\ files[EdaFile].exists
    /\ c \in DOMAIN files[EdaFile].data
    /\ Cardinality(Range(Header) \ DOMAIN files[EdaFile].data) < MaxDropped
    /\ files' = [files EXCEPT ![EdaFile].data =
                    [k \in (DOMAIN files[EdaFile].data) \ {c} |-> files[EdaFile].data[k]]]
    /\ UNCHANGED <<legacy_index, option, src, ran, invoked, reads, outcome, rendered, shown, df>>

\* the first Price cell of a file is rewritten
EditPrice(f) ==
    /\ f \in {HomeFile, EdaFile}
    /\ files[f].exists
    /\ "Price" \in DOMAIN files[f].data
    /\ files[f].data["Price"][1] # EditedPrice
    /\ files' = [files EXCEPT ![f].data["Price"][1] = EditedPrice]
    /\ UNCHANGED <<legacy_index, option, src, ran, invoked, reads, outcome, rendered, shown, df>>

Environment ==
    \/ \E f \in FileNames : RemoveFile(f)
    \/ \E f \in FileNames : RestoreFile(f)
    \/ \E c \in Range(Header) : DropColumn(c)
    \/ \E f \in FileNames : EditPrice(f)

Next == Cycle \/ Environment

Spec == Init /\ [][Next]_vars

(***************************************************************************)
(* Inputs of the coercion pass: the EDA file holds the listings with one   *)
(* cell replaced by an arbitrary short text or by a sample                 *)
(***************************************************************************)
Alphabet == {"1", ",", " ", "m", "²"}

TextsUpTo(k) == UNION {[1..n -> Alphabet] : n \in 0..k}

ShortTexts == TextsUpTo(MaxLen)

Samples ==
    { <<"N", "/", "A">>, <<"n", "a", "n">>, <<"N", "A">>, <<"-", "5">>, <<"+", "7">>,
      <<"Cairo">>,
      <<"1", ",", "2", "0", "0", " ", "m", "²">>,
      <<"1", ",", "2", "0", "0">>,
      <<"5", "0", "0", "0", " ", "m", "²">>,
      <<"1", "4", "9", "m", "²">>,
      <<"0", "0", "7">>,
      <<"1", ".", "5">>, <<"1", "2", ".", "5", "0">>, <<"7", ".">>,
      <<"1", ",", "2", "0", "0", ".", "0">>, <<"1", ".", "2", ".", "3">> }

Inputs == ShortTexts \cup Samples

\* the listings with Price and 'Area in m²' already written as plain digits,
\* so that pd.read_csv types these columns as numbers
PlainData(n) ==
    [c \in Range(Header) |->
        [i \in 1..n |->
            IF c \in {"Price", "Area in m²"}
            THEN SelectSeq(BaseRow(i)[c], LAMBDA ch : ch \in Digits)
            ELSE BaseRow(i)[c]]]

PlainInputs == TextsUpTo(MaxLen - 2) \cup Samples

EditCols == {"Price", "Area in m²", "Bedrooms", "Governorate"}

InitCoerce ==
    /\ \E plain \in BOOLEAN, c \in EditCols, i \in 1..MaxRows :
          \E s \in IF plain THEN PlainInputs ELSE Inputs :
             files = [f \in FileNames |->
                       IF f = EdaFile
                       THEN OnDisk([(IF plain THEN PlainData(MaxRows) ELSE BaseFile(f))
                                       EXCEPT ![c][i] = s])
                       ELSE OnDisk(BaseFile(f))]
    /\ InitSession

SpecCoerce == InitCoerce /\ [][Cycle]_vars

(***************************************************************************)
(* Inputs of the chart selection: the EDA file has MaxDistinct rows; View  *)
(* holds n1 and Governorate n2 distinct labels, View possibly with a gap   *)
(***************************************************************************)
Label(p, k) == <<p>> \o NatToStr(k)

ChartData(n1, n2, gap) ==
    [c \in Range(Header) |->
        [i \in 1..MaxDistinct |->
            CASE c = "View" ->
                    IF gap /\ i = MaxDistinct THEN <<>>
                    ELSE Label("v", ((i - 1) % n1) + 1)
              [] c = "Governorate" -> Label("g", ((i - 1) % n2) + 1)
              [] OTHER -> BaseRow(i)[c]]]

InitChart ==
    /\ \E n1 \in 1..MaxDistinct, n2 \in 1..MaxDistinct, gap \in BOOLEAN :
          files = [f \in FileNames |->
                    IF f = EdaFile THEN OnDisk(ChartData(n1, n2, gap))
                    ELSE OnDisk(BaseFile(f))]
    /\ InitSession

SpecChart == InitChart /\ [][Cycle]_vars

(***************************************************************************)
(* Properties                                                              *)
(***************************************************************************)
CoercedCols == {"Price", "Area in m²", "Bedrooms"}

EdaRan == ran /\ option = "EDA & Plots"

EdaDone == EdaRan /\ src.exists /\ df.has

OnlyDigits(s) == SelectSeq(s, LAMBDA ch : ch \in Digits)

\* digits grouped by commas: starts and ends with a digit, nothing else inside
IsCommaNumber(s) ==
    /\ s # <<>>
    /\ \A i \in 1..Len(s) : s[i] \in Digits \cup {","}
    /\ s[1] \in Digits
    /\ s[Len(s)] \in Digits

UnitSuffix == <<" ", "m", "²">>

HasUnitSuffix(s) ==
    Len(s) > Len(UnitSuffix) /\ SubSeq(s, Len(s) - Len(UnitSuffix) + 1, Len(s)) = UnitSuffix

WithoutUnitSuffix(s) ==
    IF HasUnitSuffix(s) THEN SubSeq(s, 1, Len(s) - Len(UnitSuffix)) ELSE s

\* a number decorated with thousands separators and/or the unit suffix
IsDecoratedNumber(s) == IsCommaNumber(WithoutUnitSuffix(s))

DecoratedValue(s) == Num(DigitsVal(OnlyDigits(s)))

\* the value of a cell whatever the dtype of its column: 7.0 is the number 7
Value(v) == [v EXCEPT !.f = FALSE]

\* the cleanup each column's statement applies to the text of one cell
CleanedText(c, s) ==
    CASE c = "Price" -> SelectSeq(s, LAMBDA ch : ch # ",")
      [] c = "Area in m²" -> str_replace(s, UnitSuffix, <<>>)
      [] c = "Bedrooms" -> s

\* C1: in a cycle of eda_page over a file that has the three columns, the
\* coercion raises nothing, and every cell of Price, 'Area in m²' and Bedrooms
\* is the number its own cleaned text spells, or the missing value when that
\* text is not a number, whatever the other cells of the table hold.
C1_CoerceOrNull ==
    EdaRan =>
        /\ outcome = "ok"
        /\ df.has
        /\ \A c \in CoercedCols : \A i \in 1..NRows(src.data) :
              Value(df.t[c][i]) = Value(ParseNumber(CleanedText(c, src.data[c][i])))

C1_Witness ==
    /\ EdaRan
    /\ outcome = "ok"
    /\ src.data["Price"][1] = <<"N", "/", "A">>
    /\ df.t["Price"][1] = NaN
    /\ Value(df.t["Price"][2]) = Num(950000)
    /\ Value(df.t["Area in m²"][1]) = Num(149)

\* C2: every Price cell that is a number written with comma separators is
\* coerced to that number with the commas removed.
C2_PriceCommas ==
    EdaDone =>
        \A i \in 1..NRows(src.data) :
            IsCommaNumber(src.data["Price"][i]) =>
                Value(df.t["Price"][i]) = Num(DigitsVal(OnlyDigits(src.data["Price"][i])))

C2_Witness ==
    /\ EdaDone
    /\ src.data["Price"][1] = <<"1", ",", "2", "3", "4", ",", "5", "0", "0">>
    /\ Value(df.t["Price"][1]) = Num(1234500)

\* C3: every 'Area in m²' cell that is a number followed by " m²" is coerced
\* to that number.
C3_AreaSuffix ==
    EdaDone =>
        \A i \in 1..NRows(src.data) :
            LET s == src.data["Area in m²"][i]
            IN  (HasUnitSuffix(s) /\ AllDigits(WithoutUnitSuffix(s))) =>
                    Value(df.t["Area in m²"][i]) = Num(DigitsVal(WithoutUnitSuffix(s)))

C3_Witness ==
    /\ EdaDone
    /\ src.data["Area in m²"][1] = <<"1", "4", "9", " ", "m", "²">>
    /\ Value(df.t["Area in m²"][1]) = Num(149)

\* C4 as stated: in each of the three columns, a number decorated with
\* thousands separators and/or the unit suffix is coerced to its number.
C4_EveryDecorationEveryColumn ==
    EdaDone =>
        \A c \in CoercedCols : \A i \in 1..NRows(src.data) :
            IsDecoratedNumber(src.data[c][i]) =>
                Value(df.t[c][i]) = DecoratedValue(src.data[c][i])

\* C4 amended: each column is cleaned of its own decoration only.  Price is
\* cleaned of commas, 'Area in m²' of the " m²" suffix, Bedrooms of nothing; a
\* decorated number carrying a decoration its column does not remove becomes
\* the missing value.
C4_OwnDecorationOnly ==
    EdaDone =>
        \A c \in CoercedCols : \A i \in 1..NRows(src.data) :
            LET s == src.data[c][i]
                removed == CASE c = "Price" -> ~HasUnitSuffix(s)
                             [] c = "Area in m²" -> AllDigits(WithoutUnitSuffix(s))
                             [] c = "Bedrooms" -> AllDigits(s)
            IN  IsDecoratedNumber(s) =>
                    Value(df.t[c][i]) = IF removed THEN DecoratedValue(s) ELSE NaN

C4_Witness ==
    /\ EdaDone
    /\ src.data["Area in m²"][1] = <<"1", ",", "2", "0", "0", " ", "m", "²">>
    /\ df.t["Area in m²"][1] = NaN
    /\ Value(df.t["Price"][1]) = Num(1234500)

\* the view function each selection value is documented to open
ExpectedView(o) ==
    CASE o = "Home Page" -> "home_page"
      [] o = "EDA & Plots" -> "eda_page"
      [] o = "Preprocessed Data" -> "preprocessed_page"

\* C5: in every cycle the view mapped to the selection is invoked exactly
\* once and neither of the other two views is invoked, whether or not the
\* view then fails.
C5_DispatchExactlyOne ==
    ran => invoked = [v \in Views |-> IF v = ExpectedView(option) THEN 1 ELSE 0]

C5_Witness ==
    /\ ran
    /\ option = "EDA & Plots"
    /\ invoked["eda_page"] = 1
    /\ invoked["home_page"] = 0
    /\ invoked["preprocessed_page"] = 0

ChartKinds == {"pie", "bar", "histogram"}

Distinct(col) == Cardinality({col[i] : i \in {j \in 1..Len(col) : col[j] # NaN}})

ChartsOf(c) == {i \in 1..Len(rendered) : rendered[i][1] \in ChartKinds /\ rendered[i][2] = c}

\* C6: in a cycle of eda_page over a file that has every column, for every
\* text column of the table with n distinct non-missing values exactly one
\* chart is drawn: a pie chart when n < 7, a bar chart when 7 <= n <= 10, a
\* histogram when n > 10.
C6_ChartByDistinctCount ==
    (EdaDone /\ Range(Header) \subseteq DOMAIN src.data) =>
        \A c \in DOMAIN df.t :
            (\E i \in 1..Len(df.t[c]) : df.t[c][i].t = "str") =>
                /\ Cardinality(ChartsOf(c)) = 1
                /\ \A i \in ChartsOf(c) :
                      rendered[i][1] =
                          IF Distinct(df.t[c]) < 7 THEN "pie"
                          ELSE IF Distinct(df.t[c]) <= 10 THEN "bar"
                          ELSE "histogram"

\* the number of display calls each view makes before it reads its file
CallsBeforeRead(o) ==
    CASE o = "Home Page" -> 4
      [] o = "EDA & Plots" -> 1
      [] o = "Preprocessed Data" -> 1

\* after the title, rendered is exactly the calls of the statements before
\* statement k of full, and statement k is the first that lacks a column
StoppedAt(full, k) ==
    /\ k <= Len(full)
    /\ ~(full[k].needs \subseteq full[k].cols)
    /\ \A i \in 1..(k - 1) :
          /\ full[i].needs \subseteq full[i].cols
          /\ rendered[i + 1] = full[i].call

\* C7: a missing backing file, or a column eda_page refers to that the file
\* lacks, makes the cycle end with the exception; what was displayed is
\* exactly what precedes the failing statement, nothing after it.
C7_FailurePropagates ==
    ran =>
        /\ ~src.exists =>
              /\ outcome = "FileNotFoundError"
              /\ shown = NoTable
              /\ df = NoTable
              /\ Len(rendered) = CallsBeforeRead(option)
              /\ \A i \in 1..Len(rendered) :
                    rendered[i][1] \in {"title", "subheader", "write"}
        /\ (option = "EDA & Plots" /\ src.exists
                /\ ~(Range(Header) \subseteq DOMAIN src.data)) =>
              /\ outcome \in {"KeyError", "ValueError"}
              /\ shown = NoTable
              /\ IF ~(CoercedCols \subseteq DOMAIN src.data)
                 THEN Len(rendered) = CallsBeforeRead(option)
                 ELSE StoppedAt(eda_steps(df.t), Len(rendered))

C7_Witness ==
    /\ ran
    /\ option = "EDA & Plots"
    /\ src.exists
    /\ "Floor" \notin DOMAIN src.data
    /\ outcome = "ValueError"
    /\ rendered[Len(rendered)] = <<"markdown", "6) Most Advertised Floors">>
    /\ \E i \in 1..Len(rendered) : rendered[i] = <<"plotly_chart", "fig5">>

\* C8: every cycle reads exactly the file of the selected view, and what it
\* displays and holds is computed from that file's contents at that moment
\* alone: nothing of earlier cycles or of the other files enters.
C8_FreshPerCycle ==
    ran =>
        /\ reads = <<BackingFile(option)>>
        /\ ~src.exists => (shown = NoTable /\ df = NoTable)
        /\ (src.exists /\ option # "EDA & Plots") =>
              /\ outcome = "ok"
              /\ shown = Table(parse_csv(src.data))
              /\ df = shown
        /\ (src.exists /\ option = "EDA & Plots") =>
              /\ shown = NoTable
              /\ df = Table(coerce_columns(parse_csv(src.data)).t)

C8_Witness ==
    /\ ran
    /\ option = "Home Page"
    /\ outcome = "ok"
    /\ ~files[EdaFile].exists
    /\ ~files[PreFile].exists
    /\ src.exists
    /\ src.data["Price"][1] = EditedPrice
    /\ shown.t["Price"][1] = Txt(EditedPrice)
    /\ reads = <<HomeFile>>

\* C9: the coercion pass rewrites the three columns and nothing else: the
\* columns present, the number and order of rows and every other column are
\* as loaded, and stay so to the end of eda_page; home_page and
\* preprocessed_page hold their table as loaded; no cycle changes its file.
C9_CoercionFrame ==
    (ran /\ src.exists) =>
        /\ files[BackingFile(option)] = src
        /\ df.has
        /\ DOMAIN df.t = DOMAIN src.data
        /\ \A c \in DOMAIN df.t :
              /\ Len(df.t[c]) = NRows(src.data)
              /\ (option # "EDA & Plots" \/ c \notin CoercedCols) =>
                    df.t[c] = parse_csv(src.data)[c]
              /\ (option = "EDA & Plots" /\ c \in CoercedCols) =>
                    \A i \in 1..Len(df.t[c]) :
                        /\ df.t[c][i].t # "str"
                        /\ Value(df.t[c][i])
                             = Value(ParseNumber(CleanedText(c, src.data[c][i])))

C9_Witness ==
    /\ EdaDone
    /\ outcome = "ok"
    /\ src.data["Governorate"][1] = <<"1", ",", "1">>
    /\ df.t["Governorate"][1] = Txt(<<"1", ",", "1">>)
    /\ src.data["Price"][1] = <<"1", ",", "2", "3", "4", ",", "5", "0", "0">>
    /\ Value(df.t["Price"][1]) = Num(1234500)

\* names the sidebar does not offer
ForeignNames == {"Home", "home page", "EDA", "Plots", "Settings", ""}

\* C10: the names the sidebar offers are exactly the keys of page_dict, so
\* the lookup of every reachable selection finds a view, which is invoked;
\* the lookup of any other name fails before any view is invoked.
C10_OptionsAreKeys ==
    /\ Range(Options) = DOMAIN page_dict
    /\ option \in DOMAIN page_dict
    /\ ran => \E v \in Views : invoked[v] = 1
    /\ \A o \in ForeignNames :
          /\ o \notin DOMAIN page_dict
          /\ dispatch(o) = [res |-> Result("KeyError", <<>>, <<>>, NoTable, NoTable),
                            invoked |-> [v \in Views |-> 0]]

C10_Witness ==
    /\ ran
    /\ option = "Preprocessed Data"
    /\ option \in DOMAIN page_dict
    /\ invoked["preprocessed_page"] = 1
    /\ outcome = "ok"

====
